---- MODULE Spec2Model ----
EXTENDS Integers, Sequences, FiniteSets, TLC

(***************************************************************************)
(* Model of game_token.py: ScoreToken, AmmoToken, PowerUpToken and Bullet, *)
(* driven by a per-frame game loop that calls collect on live tokens,      *)
(* check_for_completion on the active power-up and check_for_enemies on    *)
(* each bullet.                                                            *)
(***************************************************************************)

\* ---------------------------------------------------------------- bounds
MaxTicks == 2
MaxUpdates == 2

\* ------------------------------------------------------- pygame helpers
\* pygame.Rect.collidepoint: half-open point-in-rect test
collidepoint(r, p) ==
    /\ r.x <= p[1] /\ p[1] < r.x + r.w
    /\ r.y <= p[2] /\ p[2] < r.y + r.h

\* list.__contains__
ListHas(s, e) == \E i \in 1..Len(s) : s[i] = e

\* list.remove: drop the first occurrence of e (ValueError when absent)
ListRemove(s, e) ==
    IF ListHas(s, e)
    THEN LET i == CHOOSE i \in 1..Len(s) :
                    s[i] = e /\ \A j \in 1..(i - 1) : s[j] # e
         IN SubSeq(s, 1, i - 1) \o SubSeq(s, i + 1, Len(s))
    ELSE s

Range(s) == {s[i] : i \in 1..Len(s)}

\* ------------------------------------------------------------- tokens
None == -1
NoTok == 0
TokIds == 1..4
Kind == [t \in TokIds |-> CASE t = 1 -> "score"
                            [] t = 2 -> "ammo"
                            [] OTHER -> "powerup"]
TokLoc == [t \in TokIds |-> CASE t = 1 -> <<0, 0>>
                              [] t = 2 -> <<1, 1>>
                              [] OTHER -> <<0, 1>>]
\* size of the token sprite loaded from assets/token_icons
TokenW == 2
TokenH == 2
Grid == (0..2) \X (0..2)
\* steps of pygame.time.get_ticks between frames
Deltas == {1, 29999}
POWER_UP_MS == 30000
SCORE_GAIN == 100
AMMO_GAIN == 5

\* Token.__init__: rect from the image, top-left at int(x), int(y)
TokRect(t) == [x |-> TokLoc[t][1], y |-> TokLoc[t][2], w |-> TokenW, h |-> TokenH]

VARIABLES tokens, center, score, ammo, power_up, start_time, now, ticks,
          dropped, tokErr, typeErr, tokLast, lastCheck

tokVars == <<tokens, center, score, ammo, power_up, start_time, now, ticks,
             dropped, tokErr, typeErr, tokLast, lastCheck>>

TokInitWith(spawned) ==
    /\ tokens = spawned
    /\ center \in Grid
    /\ score = 0
    /\ ammo = 0
    /\ power_up = NoTok
    /\ start_time = [t \in TokIds |-> None]
    /\ now = 0
    /\ ticks = 0
    /\ dropped = {}
    /\ tokErr = FALSE
    /\ typeErr = FALSE
    /\ tokLast = [op |-> "init", tok |-> NoTok]
    /\ lastCheck = [valid |-> FALSE, elapsed |-> 0, res |-> FALSE]

TokInit == TokInitWith(<<1, 2, 3, 4>>)

\* UserPlayer.add_score / add_ammo / set_power_up
add_score(n) == score' = score + n
add_ammo(n) == ammo' = ammo + n
set_power_up(t) == power_up' = t

\* tokens.remove(self), recording a ValueError on an absent element
RemoveToken(t) ==
    /\ tokens' = ListRemove(tokens, t)
    /\ tokErr' = (tokErr \/ ~ListHas(tokens, t))

\* variant of ScoreToken.collect that forgets tokens.remove(self)
ScoreToken_collect_NoRemove(t) ==
    IF collidepoint(TokRect(t), center)
    THEN /\ add_score(SCORE_GAIN)
         /\ UNCHANGED <<ammo, power_up, start_time, tokens, tokErr>>
    ELSE UNCHANGED <<score, ammo, power_up, start_time, tokens, tokErr>>

\* ScoreToken.collect
ScoreToken_collect(t) ==
    IF collidepoint(TokRect(t), center)
    THEN /\ add_score(SCORE_GAIN)
         /\ RemoveToken(t)
         /\ UNCHANGED <<ammo, power_up, start_time>>
    ELSE UNCHANGED <<score, ammo, power_up, start_time, tokens, tokErr>>

\* variant of AmmoToken.collect that calls add_score instead of add_ammo
AmmoToken_collect_AddsScore(t) ==
    IF collidepoint(TokRect(t), center)
    THEN /\ add_score(AMMO_GAIN)
         /\ RemoveToken(t)
         /\ UNCHANGED <<ammo, power_up, start_time>>
    ELSE UNCHANGED <<score, ammo, power_up, start_time, tokens, tokErr>>

\* AmmoToken.collect
AmmoToken_collect(t) ==
    IF collidepoint(TokRect(t), center)
    THEN /\ add_ammo(AMMO_GAIN)
         /\ RemoveToken(t)
         /\ UNCHANGED <<score, power_up, start_time>>
    ELSE UNCHANGED <<score, ammo, power_up, start_time, tokens, tokErr>>

\* variant of PowerUpToken.collect without the power_up guard
PowerUpToken_collect_NoGuard(t) ==
    IF collidepoint(TokRect(t), center)
    THEN /\ start_time' = [start_time EXCEPT ![t] = now]
         /\ RemoveToken(t)
         /\ IF ListHas(tokens, t) THEN set_power_up(t) ELSE UNCHANGED power_up
         /\ UNCHANGED <<score, ammo>>
    ELSE UNCHANGED <<score, ammo, power_up, start_time, tokens, tokErr>>

\* variant of PowerUpToken.collect that stamps start_time before the overlap test
PowerUpToken_collect_EarlyStart(t) ==
    IF power_up # NoTok
    THEN UNCHANGED <<score, ammo, power_up, start_time, tokens, tokErr>>
    ELSE /\ start_time' = [start_time EXCEPT ![t] = now]
         /\ IF collidepoint(TokRect(t), center)
            THEN /\ RemoveToken(t)
                 /\ IF ListHas(tokens, t) THEN set_power_up(t) ELSE UNCHANGED power_up
                 /\ UNCHANGED <<score, ammo>>
            ELSE UNCHANGED <<score, ammo, power_up, tokens, tokErr>>

\* PowerUpToken.collect
PowerUpToken_collect(t) ==
    IF power_up # NoTok
    THEN UNCHANGED <<score, ammo, power_up, start_time, tokens, tokErr>>
    ELSE IF collidepoint(TokRect(t), center)
         THEN /\ start_time' = [start_time EXCEPT ![t] = now]
              /\ RemoveToken(t)
              \* a ValueError from tokens.remove skips set_power_up
              /\ IF ListHas(tokens, t) THEN set_power_up(t) ELSE UNCHANGED power_up
              /\ UNCHANGED <<score, ammo>>
         ELSE UNCHANGED <<score, ammo, power_up, start_time, tokens, tokErr>>

\* variant of check_for_completion with a strict comparison
check_for_completion_Strict(t) ==
    IF start_time[t] = None
    THEN [raised |-> TRUE, val |-> FALSE]
    ELSE [raised |-> FALSE, val |-> now - start_time[t] > POWER_UP_MS]

\* PowerUpToken.check_for_completion: returns the bool, or raises TypeError
\* (int - None) on a token that was never collected
check_for_completion(t) ==
    IF start_time[t] = None
    THEN [raised |-> TRUE, val |-> FALSE]
    ELSE [raised |-> FALSE, val |-> now - start_time[t] >= POWER_UP_MS]

\* game loop: collect on a live token
CollectToken ==
    \E t \in Range(tokens) :
        /\ CASE Kind[t] = "score" -> ScoreToken_collect(t)
             [] Kind[t] = "ammo"  -> AmmoToken_collect(t)
             [] OTHER             -> PowerUpToken_collect(t)
        /\ tokLast' = [op |-> "collect", tok |-> t]
        /\ UNCHANGED <<center, now, ticks, dropped, typeErr, lastCheck>>

\* game loop: query the active power-up, detach it once it has expired
CheckPowerUp ==
    /\ power_up # NoTok
    /\ LET r == check_for_completion(power_up) IN
         IF r.raised
         THEN /\ typeErr' = TRUE
              /\ UNCHANGED <<power_up, dropped, lastCheck>>
         ELSE /\ lastCheck' = [valid |-> TRUE,
                               elapsed |-> now - start_time[power_up], res |-> r.val]
              /\ IF r.val THEN /\ power_up' = NoTok
                               /\ dropped' = dropped \cup {power_up}
                      ELSE UNCHANGED <<power_up, dropped>>
              /\ UNCHANGED typeErr
    /\ tokLast' = [op |-> "check", tok |-> power_up]
    /\ UNCHANGED <<tokens, center, score, ammo, start_time, now, ticks, tokErr>>

\* the player moves
MovePlayer ==
    /\ \E p \in Grid : center' = p /\ center' # center
    /\ tokLast' = [op |-> "move", tok |-> NoTok]
    /\ UNCHANGED <<tokens, score, ammo, power_up, start_time, now, ticks,
                   dropped, tokErr, typeErr, lastCheck>>

\* frame timer
Tick ==
    /\ ticks < MaxTicks
    /\ \E d \in Deltas : now' = now + d
    /\ ticks' = ticks + 1
    /\ tokLast' = [op |-> "tick", tok |-> NoTok]
    /\ UNCHANGED <<tokens, center, score, ammo, power_up, start_time,
                   dropped, tokErr, typeErr, lastCheck>>

TokNext == CollectToken \/ CheckPowerUp \/ MovePlayer \/ Tick


\* ------------------------------------------------------------- bullets
BulIds == 1..2
BulStart == [b \in BulIds |-> IF b = 1 THEN <<1, 1>> ELSE <<2, 2>>]
\* constants.py: direction -> unit displacement, and the bullet speed
Dirs == {"up", "down", "left", "right",
         "up_left", "up_right", "down_left", "down_right"}
MOVEMENT_COEFFICIENTS ==
    [d \in Dirs |-> CASE d = "up"         -> <<0, -1>>
                      [] d = "down"       -> <<0, 1>>
                      [] d = "left"       -> <<-1, 0>>
                      [] d = "right"      -> <<1, 0>>
                      [] d = "up_left"    -> <<-1, -1>>
                      [] d = "up_right"   -> <<1, -1>>
                      [] d = "down_left"  -> <<-1, 1>>
                      [] OTHER            -> <<1, 1>>]
BULLET_SPEED == 2
EnemyIds == 1..3
\* Enemy.rect of each enemy
EnemyRect == [e \in EnemyIds |->
                CASE e = 1 -> [x |-> 0, y |-> 0, w |-> 3, h |-> 3]
                  [] e = 2 -> [x |-> 1, y |-> 1, w |-> 3, h |-> 3]
                  [] OTHER -> [x |-> 4, y |-> 0, w |-> 2, h |-> 2]]
AllEnemies == <<1, 2, 3>>

VARIABLES bx, by, brect, bdir, nUpd, enemies, kills, bulErr, bulLast

bulVars == <<bx, by, brect, bdir, nUpd, enemies, kills, bulErr, bulLast>>

\* Bullet.__init__
BulInit ==
    /\ bx = [b \in BulIds |-> BulStart[b][1]]
    /\ by = [b \in BulIds |-> BulStart[b][2]]
    /\ brect = [b \in BulIds |-> [x |-> BulStart[b][1] - 2,
                                  y |-> BulStart[b][2] - 2, w |-> 4, h |-> 4]]
    /\ bdir \in [BulIds -> Dirs]
    /\ nUpd = [b \in BulIds |-> 0]
    /\ enemies = AllEnemies
    /\ kills = 0
    /\ bulErr = FALSE
    /\ bulLast = [op |-> "init", b |-> 0]

\* variant of Bullet.update that moves x by the y coefficient
Bullet_update_SwappedAxis(b) ==
    /\ bx' = [bx EXCEPT ![b] = @ + MOVEMENT_COEFFICIENTS[bdir[b]][2] * BULLET_SPEED]
    /\ by' = [by EXCEPT ![b] = @ + MOVEMENT_COEFFICIENTS[bdir[b]][2] * BULLET_SPEED]
    /\ UNCHANGED <<brect, bdir, enemies, kills, bulErr>>

\* Bullet.update
Bullet_update(b) ==
    /\ bx' = [bx EXCEPT ![b] = @ + MOVEMENT_COEFFICIENTS[bdir[b]][1] * BULLET_SPEED]
    /\ by' = [by EXCEPT ![b] = @ + MOVEMENT_COEFFICIENTS[bdir[b]][2] * BULLET_SPEED]
    /\ UNCHANGED <<brect, bdir, enemies, kills, bulErr>>

\* loop body of Bullet.check_for_enemies over the snapshot enemies.copy():
\* returns <<enemies, kills, ValueError raised>>
RECURSIVE CheckLoop(_, _, _, _, _)
CheckLoop(snap, ens, k, p, err) ==
    IF snap = <<>> THEN <<ens, k, err>>
    ELSE LET en == Head(snap) IN
         IF collidepoint(EnemyRect[en], p)
         THEN CheckLoop(Tail(snap), ListRemove(ens, en), k + 1, p,
                        err \/ ~ListHas(ens, en))
         ELSE CheckLoop(Tail(snap), ens, k, p, err)

\* variant of Bullet.check_for_enemies testing the rect's top-left corner
Bullet_check_for_enemies_RectPoint(b) ==
    LET res == CheckLoop(enemies, enemies, 0, <<brect[b].x, brect[b].y>>, FALSE) IN
    /\ enemies' = res[1]
    /\ kills' = res[2]
    /\ bulErr' = (bulErr \/ res[3])
    /\ UNCHANGED <<bx, by, brect, bdir>>

\* variant of Bullet.check_for_enemies iterating over every enemy ever spawned
Bullet_check_for_enemies_StaleSnapshot(b) ==
    LET res == CheckLoop(AllEnemies, enemies, 0, <<bx[b], by[b]>>, FALSE) IN
    /\ enemies' = res[1]
    /\ kills' = res[2]
    /\ bulErr' = (bulErr \/ res[3])
    /\ UNCHANGED <<bx, by, brect, bdir>>

\* Bullet.check_for_enemies
Bullet_check_for_enemies(b) ==
    LET res == CheckLoop(enemies, enemies, 0, <<bx[b], by[b]>>, FALSE) IN
    /\ enemies' = res[1]
    /\ kills' = res[2]
    /\ bulErr' = (bulErr \/ res[3])
    /\ UNCHANGED <<bx, by, brect, bdir>>

\* game loop: move a bullet (Bullet.update, also the first half of place)
UpdateBullet ==
    \E b \in BulIds :
        /\ nUpd[b] < MaxUpdates
        /\ Bullet_update(b)
        /\ nUpd' = [nUpd EXCEPT ![b] = @ + 1]
        /\ bulLast' = [op |-> "update", b |-> b]

\* game loop: collision check of a bullet against the enemies
CheckBullet ==
    \E b \in BulIds :
        /\ Bullet_check_for_enemies(b)
        /\ bulLast' = [op |-> "check", b |-> b]
        /\ UNCHANGED nUpd

BulNext == UpdateBullet \/ CheckBullet

vars == <<tokVars, bulVars>>

TokStep == TokNext /\ UNCHANGED bulVars
BulStep == BulNext /\ UNCHANGED tokVars

\* token subsystem alone (no bullet in flight moves)
TokSpecInit == TokInit /\ BulInit /\ bdir = [b \in BulIds |-> "up"]
TokenSpec == TokSpecInit /\ [][TokStep]_vars

\* bullet subsystem alone (the player stays away from every token)
BulSpecInit == TokInit /\ center = <<2, 0>> /\ BulInit
BulletSpec == BulSpecInit /\ [][BulStep]_vars

\* one frame loop driving both subsystems, from one spawn configuration
Init == TokInitWith(<<1, 3>>) /\ center = <<2, 0>>
        /\ BulInit /\ bdir = [b \in BulIds |-> IF b = 1 THEN "right" ELSE "up"]
Next == TokStep \/ BulStep
Spec == Init /\ [][Next]_vars

\* ================================================================ claims
PowerUpIds == {t \in TokIds : Kind[t] = "powerup"}
CollectOf(t) == [op |-> "collect", tok |-> t]
Without(s, t) == SelectSeq(s, LAMBDA x : x # t)

\* C1: ScoreToken.collect adds exactly 100 to the score and removes the token
\* (keeping the others in order) iff the player's center lies in its rect;
\* otherwise neither the score nor the token list changes.
C1_ScoreCollect ==
    [][\A t \in TokIds :
         (Kind[t] = "score" /\ tokLast' = CollectOf(t)) =>
           IF collidepoint(TokRect(t), center)
           THEN score' = score + 100 /\ tokens' = Without(tokens, t)
           ELSE score' = score /\ tokens' = tokens]_vars

C1_Witness == tokLast = CollectOf(1) /\ score = 100 /\ ~ListHas(tokens, 1)

\* C2: AmmoToken.collect adds exactly 5 ammo and removes the token iff the
\* player's center lies in its rect; otherwise neither changes.
C2_AmmoCollect ==
    [][\A t \in TokIds :
         (Kind[t] = "ammo" /\ tokLast' = CollectOf(t)) =>
           IF collidepoint(TokRect(t), center)
           THEN ammo' = ammo + 5 /\ tokens' = Without(tokens, t)
           ELSE ammo' = ammo /\ tokens' = tokens]_vars

C2_Witness == tokLast = CollectOf(2) /\ center = TokLoc[2] /\ ammo = 5
              /\ ~ListHas(tokens, 2)

\* C3: PowerUpToken.collect with an active power-up on the player changes
\* neither the token list, the token's start_time nor the power-up slot.
C3_BlockedPowerUp ==
    [][\A t \in PowerUpIds :
         (tokLast' = CollectOf(t) /\ power_up # NoTok) =>
           /\ tokens' = tokens
           /\ start_time'[t] = start_time[t]
           /\ power_up' = power_up]_vars

C3_Witness == tokLast = CollectOf(4) /\ power_up = 3 /\ ListHas(tokens, 4)
              /\ collidepoint(TokRect(4), center)

\* C4: check_for_completion on a collected power-up is false for every
\* elapsed time below 30000 ms and true from 30000 ms on.
C4_Completion ==
    lastCheck.valid =>
        /\ lastCheck.elapsed < 30000 => ~lastCheck.res
        /\ lastCheck.elapsed >= 30000 => lastCheck.res

C4_Witness == lastCheck.valid /\ lastCheck.elapsed = 30000

\* C5: after N calls of Bullet.update a bullet is at its start position plus
\* N * BULLET_SPEED * MOVEMENT_COEFFICIENTS[direction].
C5_UpdatePosition ==
    \A b \in BulIds :
        /\ bx[b] = BulStart[b][1] + nUpd[b] * BULLET_SPEED * MOVEMENT_COEFFICIENTS[bdir[b]][1]
        /\ by[b] = BulStart[b][2] + nUpd[b] * BULLET_SPEED * MOVEMENT_COEFFICIENTS[bdir[b]][2]

C5_Witness == \E b \in BulIds : nUpd[b] = MaxUpdates /\ bdir[b] = "down_left"

\* C6: Bullet.check_for_enemies removes exactly the enemies whose rect holds
\* the bullet's point, keeps the others, returns how many it removed and
\* leaves the bullet unchanged.
C6_CheckForEnemies ==
    [][\A b \in BulIds :
         bulLast' = [op |-> "check", b |-> b] =>
           LET p == <<bx[b], by[b]>> IN
           /\ enemies' = SelectSeq(enemies, LAMBDA e : ~collidepoint(EnemyRect[e], p))
           /\ kills' = Len(SelectSeq(enemies, LAMBDA e : collidepoint(EnemyRect[e], p)))
           /\ bx' = bx /\ by' = by /\ brect' = brect /\ bdir' = bdir]_vars

C6_Witness == bulLast.op = "check" /\ kills = 2

\* C7: a bullet's rect is always the 4x4 square with top-left (x-2, y-2).
C7_RectCentered ==
    \A b \in BulIds :
        brect[b] = [x |-> bx[b] - 2, y |-> by[b] - 2, w |-> 4, h |-> 4]

\* C8: a power-up's start_time is None while it is in the token list, is set
\* exactly by the collect that removes it and makes it the player's power-up,
\* and never changes afterwards.
C8_Lifecycle ==
    /\ [](\A t \in PowerUpIds : ListHas(tokens, t) => start_time[t] = None)
    /\ [][\A t \in PowerUpIds :
            /\ start_time[t] # None => start_time'[t] = start_time[t]
            /\ (start_time[t] = None /\ start_time'[t] # None) =>
                  /\ tokLast' = CollectOf(t)
                  /\ ListHas(tokens, t) /\ ~ListHas(tokens', t)
                  /\ power_up' = t
            /\ (ListHas(tokens, t) /\ ~ListHas(tokens', t)) =>
                  start_time'[t] # None]_vars

C8_Witness == \E t \in PowerUpIds : start_time[t] # None /\ t \in dropped

\* C9: at most one collected power-up is active (collected and not yet
\* detached by the loop) and it is the player's power_up; a token is never
\* both in the token list and the player's power-up.
C9_SinglePowerUp ==
    /\ power_up # NoTok => ~ListHas(tokens, power_up)
    /\ {t \in PowerUpIds : start_time[t] # None /\ t \notin dropped}
         \subseteq {power_up}

C9_Witness == power_up = 3 /\ ListHas(tokens, 4) /\ collidepoint(TokRect(4), center)

\* C10: no list.remove of a token or an enemy is ever made on an element
\* absent from its list.
C10_NoRemoveError == ~tokErr /\ ~bulErr

C10_Witness == tokens = <<>> /\ bulLast = [op |-> "check", b |-> 2]
               /\ ~ListHas(enemies, 1) /\ nUpd[2] = 0

====
